---------------------------- MODULE Spec2Model ----------------------------
(***************************************************************************)
(* A model of the Naver keyword MCP server (src/main.py): the request      *)
(* signer, the keyword fetcher, the ranker/formatter, the JSON-RPC         *)
(* dispatcher of POST /mcp, the REST shortcut and the GET /mcp event       *)
(* stream.                                                                 *)
(*                                                                         *)
(* Python values are tagged records, so that values of different Python    *)
(* types can be compared: PyStr(s) with s a sequence of one-character      *)
(* strings, PyInt(n), PyNone.  A dict is a function whose DOMAIN is the    *)
(* set of its keys; the empty dict is << >>.                               *)
(*                                                                         *)
(* The Korean message literals of the source are written in ASCII here,    *)
(* the source literal is given in the comment at each definition.          *)
(***************************************************************************)
EXTENDS Integers, Sequences, FiniteSets, TLC

VARIABLES
    \* ---- format_keywords applied to drawn inputs (SpecFormat)
    fmt_data,       \* the `data` argument
    fmt_keyword,    \* the `keyword` argument
    fmt_top_n,      \* the `top_n` argument
    fmt_return,     \* what format_keywords returned, NotCalled before the call
    \* ---- one inbound HTTP request at a time (Spec); the server keeps no state
    now_ms,         \* int(time.time() * 1000) as the next call would read it
    request,        \* the inbound request being answered, or NoRequest
    upstream,       \* what the external API answered to this request's GET
    outbound,       \* the outbound GETs issued while handling this request
    raw_data,       \* what get_related_keywords returned, NotCalled if not called
    formatted,      \* what format_keywords returned, NotCalled if not called
    response,       \* what the handler returned (Raised if it raised)
    \* ---- the GET /mcp event stream (SpecSse)
    asyncio_bound,  \* whether the module global `asyncio` is bound
    sse_pc,         \* the position of event_generator
    sse_events,     \* the events emitted so far, each with its emission time
    sse_clock,      \* wall clock, seconds
    sse_wake_at,    \* when the pending asyncio.sleep returns
    connected,      \* the transport still holds the client's connection
    seen_disconnect \* request.is_disconnected() has returned True

fmt_vars == <<fmt_data, fmt_keyword, fmt_top_n, fmt_return>>
req_vars == <<now_ms, request, upstream, outbound, raw_data, formatted, response>>
sse_vars == <<asyncio_bound, sse_pc, sse_events, sse_clock, sse_wake_at,
              connected, seen_disconnect>>
vars == <<fmt_vars, req_vars, sse_vars>>

----------------------------------------------------------------------------
(* Bounds of the model *)

MaxRecords == 3      \* longest keywordList drawn for format_keywords
MaxTopN == 4         \* largest top_n drawn
MaxNegTopN == 2      \* top_n is drawn down to -MaxNegTopN
MaxClockMs == 2      \* now_ms ranges over 0..MaxClockMs
MaxTicks == 9        \* the event stream's clock advances at most MaxTicks times

----------------------------------------------------------------------------
(* Python values *)

PyStr(s) == [t |-> "str", s |-> s]
PyInt(n) == [t |-> "int", n |-> n]
PyNone == [t |-> "none"]

NotCalled == [t |-> "not_called"]

Min(a, b) == IF a <= b THEN a ELSE b
Max(a, b) == IF a >= b THEN a ELSE b

\* dict.get(k, default)
Get(d, k, default) == IF k \in DOMAIN d THEN d[k] ELSE default

DigitChar == <<"0", "1", "2", "3", "4", "5", "6", "7", "8", "9">>
DigitSet == {DigitChar[i] : i \in 1..10}
DigitVal(c) == (CHOOSE i \in 1..10 : DigitChar[i] = c) - 1

RECURSIVE NatStr(_)
NatStr(n) ==
    IF n < 10 THEN <<DigitChar[n + 1]>>
    ELSE NatStr(n \div 10) \o <<DigitChar[(n % 10) + 1]>>

\* str(v): the decimal text of an int, the text itself of a str, "None" of None
str(v) ==
    CASE v.t = "int" -> IF v.n < 0 THEN <<"-">> \o NatStr(-v.n) ELSE NatStr(v.n)
      [] v.t = "str" -> v.s
      [] v.t = "none" -> <<"N", "o", "n", "e">>

\* str.isdigit(): at least one character and every character a decimal digit
\* (characters are ASCII here)
isdigit(s) == Len(s) > 0 /\ \A i \in 1..Len(s) : s[i] \in DigitSet

RECURSIVE StrToNat(_)
StrToNat(s) ==
    IF Len(s) = 0 THEN 0
    ELSE 10 * StrToNat(SubSeq(s, 1, Len(s) - 1)) + DigitVal(s[Len(s)])

\* int(v), called only where str(v).isdigit() holds
int(v) == IF v.t = "int" THEN v.n ELSE StrToNat(v.s)

\* bool(v)
Truthy(v) ==
    CASE v.t = "str" -> Len(v.s) > 0
      [] v.t = "int" -> v.n # 0
      [] v.t = "none" -> FALSE

\* seq[:stop] for stop an int or None
SliceTo(seq, stop) ==
    CASE stop.t = "none" -> seq
      [] stop.t = "int" /\ stop.n >= 0 -> SubSeq(seq, 1, Min(stop.n, Len(seq)))
      [] stop.t = "int" /\ stop.n < 0 -> SubSeq(seq, 1, Max(Len(seq) + stop.n, 0))

----------------------------------------------------------------------------
(* format_keywords *)

SENTINEL_LT_10 == <<"<", " ", "1", "0">>     \* "< 10"
MSG_NO_KEYWORD_DATA == "no keyword data"     \* "키워드 데이터 없음"
DEFAULT_TOP_N == 15

\* one operand of the sort key's lambda
SortKeyPart(x, field) ==
    IF isdigit(str(Get(x, field, PyInt(0)))) THEN int(Get(x, field, PyInt(0))) ELSE 0

\* key=lambda x: ... of sorted()
SortKey(x) == SortKeyPart(x, "monthlyPcQcCnt") + SortKeyPart(x, "monthlyMobileQcCnt")

\* a mutant of InsertDescending: x goes in front of the elements of equal key
InsertDescending_unstable(acc, x) ==
    LET behind == {i \in 1..Len(acc) : SortKey(acc[i]) > SortKey(x)}
        k == IF behind = {} THEN 0 ELSE CHOOSE i \in behind : \A j \in behind : j <= i
    IN SubSeq(acc, 1, k) \o <<x>> \o SubSeq(acc, k + 1, Len(acc))

\* acc is sorted by SortKey descending; x goes behind every element whose key
\* is at least its own
InsertDescending(acc, x) ==
    LET behind == {i \in 1..Len(acc) : SortKey(acc[i]) >= SortKey(x)}
        k == IF behind = {} THEN 0 ELSE CHOOSE i \in behind : \A j \in behind : j <= i
    IN SubSeq(acc, 1, k) \o <<x>> \o SubSeq(acc, k + 1, Len(acc))

RECURSIVE SortedFrom(_, _)
SortedFrom(acc, rest) ==
    IF rest = <<>> THEN acc
    ELSE SortedFrom(InsertDescending(acc, Head(rest)), Tail(rest))

\* sorted(keywords, key=..., reverse=True): a stable sort, equal keys keep
\* their original relative order
keywords_sorted(keywords) == SortedFrom(<<>>, keywords)

\* pc_val / mobile_val
CountVal(c) ==
    IF str(c) = SENTINEL_LT_10 THEN 0
    ELSE IF isdigit(str(c)) THEN int(c) ELSE 0

RankedKeyword(kw) ==
    LET pc == Get(kw, "monthlyPcQcCnt", PyInt(0))
        mobile == Get(kw, "monthlyMobileQcCnt", PyInt(0))
        pc_val == CountVal(pc)
        mobile_val == CountVal(mobile)
    IN [keyword |-> Get(kw, "relKeyword", ""),
        monthlySearches |-> pc_val + mobile_val,
        pcSearches |-> pc_val,
        mobileSearches |-> mobile_val,
        competition |-> Get(kw, "compIdx", "")]

\* a mutant of TopKeywords: the list is truncated before it is sorted
TopKeywords_truncates_first(keywords, top_n) ==
    LET top == keywords_sorted(SliceTo(keywords, top_n))
    IN [i \in 1..Len(top) |-> RankedKeyword(top[i])]

\* for kw in keywords_sorted[:top_n]: result.append(...)
TopKeywords(keywords, top_n) ==
    LET top == SliceTo(keywords_sorted(keywords), top_n)
    IN [i \in 1..Len(top) |-> RankedKeyword(top[i])]

\* a mutant of format_keywords: an error input is rebuilt from its error
\* field alone, and only when it has no keywordList
format_keywords_rebuilds_error(data, keyword, top_n) ==
    IF "keywordList" \in DOMAIN data
    THEN [searchKeyword |-> keyword,
          totalResults |-> Len(data.keywordList),
          topKeywords |-> TopKeywords(data.keywordList, top_n)]
    ELSE IF "error" \in DOMAIN data THEN [error |-> data.error]
    ELSE [error |-> MSG_NO_KEYWORD_DATA]

format_keywords(data, keyword, top_n) ==
    IF "error" \in DOMAIN data THEN data
    ELSE IF "keywordList" \notin DOMAIN data THEN [error |-> MSG_NO_KEYWORD_DATA]
    ELSE [searchKeyword |-> keyword,
          totalResults |-> Len(data.keywordList),
          topKeywords |-> TopKeywords(data.keywordList, top_n)]

----------------------------------------------------------------------------
(* generate_signature and get_related_keywords *)

CUSTOMER_ID == "customer-1"
API_KEY == "api-key-1"
SECRET_KEY == "secret-1"
BASE_URL == "https://api.naver.com"
KEYWORDSTOOL_PATH == "/keywordstool"
API_ERROR_PREFIX == "API error: "            \* f"API 오류: {status_code}"

\* hmac.new(key, message, hashlib.sha256).digest() and base64.b64encode are
\* symbolic: a digest is determined by, and determines, its key and message
hmac_sha256_digest(key, message) == [hmac_sha256 |-> [key |-> key, message |-> message]]
b64encode(digest) == [base64 |-> digest]

generate_signature(timestamp, method, path) ==
    LET message == timestamp \o "." \o method \o "." \o path
    IN b64encode(hmac_sha256_digest(SECRET_KEY, message))

\* a mutant of OutboundGet: the query string is signed along with the path
OutboundGet_signs_query(keyword, clock_ms) ==
    LET timestamp == ToString(clock_ms)
        path == KEYWORDSTOOL_PATH
        method == "GET"
        signature == generate_signature(timestamp, method, path \o "?showDetail=1")
    IN [method |-> method,
        url |-> BASE_URL \o path,
        headers |-> ("X-API-KEY" :> API_KEY) @@ ("X-CUSTOMER" :> CUSTOMER_ID)
                    @@ ("X-Timestamp" :> timestamp) @@ ("X-Signature" :> signature),
        params |-> [hintKeywords |-> keyword, showDetail |-> "1"]]

\* the requests.get(...) call of get_related_keywords at clock reading clock_ms
OutboundGet(keyword, clock_ms) ==
    LET timestamp == ToString(clock_ms)
        path == KEYWORDSTOOL_PATH
        method == "GET"
        signature == generate_signature(timestamp, method, path)
    IN [method |-> method,
        url |-> BASE_URL \o path,
        headers |-> ("X-API-KEY" :> API_KEY) @@ ("X-CUSTOMER" :> CUSTOMER_ID)
                    @@ ("X-Timestamp" :> timestamp) @@ ("X-Signature" :> signature),
        params |-> [hintKeywords |-> keyword, showDetail |-> "1"]]

\* What the external API may do with one GET: answer with a status, a body
\* text and (for JSON bodies) its parsed value, or fail below HTTP
HttpReply(status_code, text, json) ==
    [kind |-> "http", status_code |-> status_code, text |-> text, json |-> json]
NetworkError == [kind |-> "network_error"]
NoReply == [kind |-> "none"]

\* a mutant of get_related_keywords: a non-200 answer is retried once
get_related_keywords_retries(keyword, clock_ms, reply) ==
    LET once == <<OutboundGet(keyword, clock_ms)>>
    IN IF reply.kind = "network_error"
       THEN [sent |-> once, raised |-> TRUE, value |-> NotCalled]
       ELSE IF reply.status_code = 200
       THEN [sent |-> once, raised |-> FALSE, value |-> reply.json]
       ELSE [sent |-> once \o once, raised |-> FALSE,
             value |-> [error |-> API_ERROR_PREFIX \o ToString(reply.status_code),
                        detail |-> reply.text]]

\* get_related_keywords(keyword) when the clock reads clock_ms and the
\* external API does `reply`: the GETs sent, and the value returned unless
\* requests.get raised
get_related_keywords(keyword, clock_ms, reply) ==
    LET sent == <<OutboundGet(keyword, clock_ms)>>
    IN IF reply.kind = "network_error"
       THEN [sent |-> sent, raised |-> TRUE, value |-> NotCalled]
       ELSE IF reply.status_code = 200
       THEN [sent |-> sent, raised |-> FALSE, value |-> reply.json]
       ELSE [sent |-> sent, raised |-> FALSE,
             value |-> [error |-> API_ERROR_PREFIX \o ToString(reply.status_code),
                        detail |-> reply.text]]

----------------------------------------------------------------------------
(* The HTTP handlers *)

TOOL_NAME == "get_naver_keywords"
TOOLS == <<[name |-> TOOL_NAME,
            inputSchema |-> [type |-> "object",
                             properties |-> {"keyword", "top_n"},
                             required |-> <<"keyword">>]]>>
MSG_ENTER_KEYWORD == "enter a keyword"       \* "키워드를 입력해주세요."
ERROR_TEXT_PREFIX == "error: "               \* f"오류: {formatted['error']}"
METHOD_NOT_FOUND == [code |-> -32601, message |-> "Method not found"]

\* an unhandled exception leaves the handler: the framework answers, not the handler
Raised == [raised |-> "exception"]

JsonRpcResult(request_id, result) ==
    [jsonrpc |-> "2.0", id |-> request_id, result |-> result]
\* a mutant of JsonRpcError: the error response does not echo the id
JsonRpcError_drops_id(request_id, error) ==
    [jsonrpc |-> "2.0", id |-> PyNone, error |-> error]

JsonRpcError(request_id, error) ==
    [jsonrpc |-> "2.0", id |-> request_id, error |-> error]
TextContent(text) == [content |-> <<[type |-> "text", text |-> text]>>]

\* result_text of mcp_post; "\n".join(lines) is kept as the sequence of lines
\* and a table row as its fields
ResultText(fmt) ==
    IF "error" \in DOMAIN fmt THEN [text |-> ERROR_TEXT_PREFIX \o fmt.error]
    ELSE [lines |->
            <<[title |-> fmt.searchKeyword],
              [total |-> fmt.totalResults, shown |-> Len(fmt.topKeywords)],
              [blank |-> TRUE], [table_header |-> TRUE], [table_rule |-> TRUE]>>
            \o [i \in 1..Len(fmt.topKeywords) |->
                  [rank |-> i,
                   keyword |-> fmt.topKeywords[i].keyword,
                   monthlySearches |-> fmt.topKeywords[i].monthlySearches,
                   competition |-> fmt.topKeywords[i].competition]]]

\* what a handler did: the response it returned (Raised if it raised), the
\* GETs it sent, and the values of its locals raw_data and formatted
Handled(resp, sent, raw, fmt) ==
    [response |-> resp, sent |-> sent, raw_data |-> raw, formatted |-> fmt]

\* the "API 호출" part of mcp_post and the whole of api_keywords' body
FetchAndFormat(keyword, top_n, clock_ms, reply) ==
    LET fetched == get_related_keywords(keyword, clock_ms, reply)
    IN IF fetched.raised
       THEN [sent |-> fetched.sent, raised |-> TRUE,
             raw_data |-> NotCalled, formatted |-> NotCalled]
       ELSE [sent |-> fetched.sent, raised |-> FALSE,
             raw_data |-> fetched.value,
             formatted |-> format_keywords(fetched.value, keyword, top_n)]

\* a mutant of CallTool: an empty keyword is answered with a JSON-RPC error
CallTool_rejects_empty(request_id, arguments, clock_ms, reply) ==
    LET keyword == Get(arguments, "keyword", PyStr(<<>>))
        top_n == Get(arguments, "top_n", PyInt(DEFAULT_TOP_N))
        ff == FetchAndFormat(keyword, top_n, clock_ms, reply)
    IN IF ~Truthy(keyword)
       THEN Handled(JsonRpcError(request_id, [code |-> -32602, message |-> "Invalid params"]),
                    <<>>, NotCalled, NotCalled)
       ELSE IF ff.raised
       THEN Handled(Raised, ff.sent, NotCalled, NotCalled)
       ELSE Handled(JsonRpcResult(request_id, TextContent(ResultText(ff.formatted))),
                    ff.sent, ff.raw_data, ff.formatted)

\* the tools/call branch for tool get_naver_keywords
CallTool(request_id, arguments, clock_ms, reply) ==
    LET keyword == Get(arguments, "keyword", PyStr(<<>>))
        top_n == Get(arguments, "top_n", PyInt(DEFAULT_TOP_N))
        ff == FetchAndFormat(keyword, top_n, clock_ms, reply)
    IN IF ~Truthy(keyword)
       THEN Handled(JsonRpcResult(request_id, TextContent([text |-> MSG_ENTER_KEYWORD])),
                    <<>>, NotCalled, NotCalled)
       ELSE IF ff.raised
       THEN Handled(Raised, ff.sent, NotCalled, NotCalled)
       ELSE Handled(JsonRpcResult(request_id, TextContent(ResultText(ff.formatted))),
                    ff.sent, ff.raw_data, ff.formatted)

\* a mutant of mcp_post: tools/call runs the tool whatever params.name is
mcp_post_any_tool(body, clock_ms, reply) ==
    LET method == Get(body, "method", "")
        params == Get(body, "params", << >>)
        request_id == Get(body, "id", PyNone)
        arguments == Get(params, "arguments", << >>)
    IN IF method = "initialize"
       THEN Handled(JsonRpcResult(request_id,
                        [protocolVersion |-> "2024-11-05",
                         capabilities |-> [tools |-> << >>],
                         serverInfo |-> [name |-> "naver-keyword-mcp",
                                         version |-> "1.0.0"]]),
                    <<>>, NotCalled, NotCalled)
       ELSE IF method = "tools/list"
       THEN Handled(JsonRpcResult(request_id, [tools |-> TOOLS]),
                    <<>>, NotCalled, NotCalled)
       ELSE IF method = "tools/call"
       THEN CallTool(request_id, arguments, clock_ms, reply)
       ELSE Handled(JsonRpcError(request_id, METHOD_NOT_FOUND),
                    <<>>, NotCalled, NotCalled)

\* POST /mcp
mcp_post(body, clock_ms, reply) ==
    LET method == Get(body, "method", "")
        params == Get(body, "params", << >>)
        request_id == Get(body, "id", PyNone)
        tool_name == Get(params, "name", "")
        arguments == Get(params, "arguments", << >>)
    IN IF method = "initialize"
       THEN Handled(JsonRpcResult(request_id,
                        [protocolVersion |-> "2024-11-05",
                         capabilities |-> [tools |-> << >>],
                         serverInfo |-> [name |-> "naver-keyword-mcp",
                                         version |-> "1.0.0"]]),
                    <<>>, NotCalled, NotCalled)
       ELSE IF method = "tools/list"
       THEN Handled(JsonRpcResult(request_id, [tools |-> TOOLS]),
                    <<>>, NotCalled, NotCalled)
       ELSE IF method = "tools/call" /\ tool_name = TOOL_NAME
       THEN CallTool(request_id, arguments, clock_ms, reply)
       ELSE Handled(JsonRpcError(request_id, METHOD_NOT_FOUND),
                    <<>>, NotCalled, NotCalled)

\* GET /api/keywords/{keyword}
api_keywords(keyword, top_n, clock_ms, reply) ==
    LET ff == FetchAndFormat(keyword, top_n, clock_ms, reply)
    IN IF ff.raised THEN Handled(Raised, ff.sent, NotCalled, NotCalled)
       ELSE Handled(ff.formatted, ff.sent, ff.raw_data, ff.formatted)

\* GET / and GET /health
root == Handled([status |-> "ok", service |-> "Naver Keyword MCP Server"],
                <<>>, NotCalled, NotCalled)
health == Handled([status |-> "healthy"], <<>>, NotCalled, NotCalled)

----------------------------------------------------------------------------
(* Inputs *)

Absent == [t |-> "absent"]                   \* the key is not in the dict
Entry(k, v) == IF v = Absent THEN << >> ELSE k :> v

\* the (monthlyPcQcCnt, monthlyMobileQcCnt) pairs drawn for a record: digit
\* strings, a number, the sentinel, garbage and missing counts, with equal
\* sums among them
CountSamples ==
    {<<PyStr(<<"2", "0">>), PyStr(<<"5">>)>>,
     <<PyStr(<<"2", "0">>), Absent>>,
     <<PyStr(SENTINEL_LT_10), PyStr(<<"5">>)>>,
     <<PyStr(SENTINEL_LT_10), PyStr(<<"-", "3">>)>>,
     <<PyInt(5), Absent>>,
     <<PyStr(<<"a", "b">>), PyStr(<<"-", "3">>)>>,
     <<PyStr(<<"a", "b">>), Absent>>,
     <<Absent, PyStr(SENTINEL_LT_10)>>}

\* the i-th record of a keywordList; relKeyword names the position, so equal
\* counts do not make two records of a list equal
KeywordRecord(i, pc, mobile) ==
    [relKeyword |-> "kw" \o ToString(i),
     compIdx |-> IF i % 2 = 1 THEN "high" ELSE "low"]
    @@ Entry("monthlyPcQcCnt", pc) @@ Entry("monthlyMobileQcCnt", mobile)

KeywordListsOfLen(n) ==
    {[i \in 1..n |-> KeywordRecord(i, f[i][1], f[i][2])] :
        f \in [1..n -> CountSamples]}

KeywordLists == UNION {KeywordListsOfLen(n) : n \in 0..MaxRecords}

SampleKeyword == PyStr(<<"k">>)

ErrorInputs ==
    {[error |-> "x"],
     [error |-> API_ERROR_PREFIX \o "500", detail |-> "body"],
     [error |-> "x", keywordList |-> <<KeywordRecord(1, PyInt(5), Absent)>>]}
OtherInputs == {<< >>, [message |-> "no list"]}

FormatInputs ==
    ErrorInputs \cup OtherInputs \cup {[keywordList |-> l] : l \in KeywordLists}

TopNs == {PyInt(n) : n \in (-MaxNegTopN)..MaxTopN}

\* JSON-RPC request bodies
RequestIds == {Absent, PyNone, PyInt(1), PyStr(<<"a">>)}
Methods == {"initialize", "tools/list", "tools/call", "foo", "notifications/initialized"}
ArgumentsSamples ==
    {<< >>, [top_n |-> PyInt(2)], [keyword |-> PyStr(<<>>)],
     [keyword |-> PyStr(<<>>), top_n |-> PyInt(-1)]}
    \cup {[keyword |-> SampleKeyword] @@ Entry("top_n", n) :
            n \in {Absent, PyNone, PyInt(-1), PyInt(0), PyInt(1), PyInt(2)}}
ParamsSamples ==
    {<< >>, [name |-> "other_tool"],
     [name |-> "other_tool", arguments |-> [keyword |-> SampleKeyword]],
     [arguments |-> [keyword |-> SampleKeyword]],
     [name |-> TOOL_NAME]}
    \cup {[name |-> TOOL_NAME, arguments |-> a] : a \in ArgumentsSamples}
Bodies ==
    {m @@ i @@ p :
        m \in {<< >>} \cup {"method" :> x : x \in Methods},
        i \in {Entry("id", x) : x \in RequestIds},
        p \in {<< >>} \cup {"params" :> x : x \in ParamsSamples}}

\* what the external API may answer
UpstreamJson ==
    {<< >>, [error |-> "quota exceeded"], [keywordList |-> <<>>],
     [keywordList |-> <<KeywordRecord(1, PyStr(SENTINEL_LT_10), PyStr(<<"5">>)),
                        KeywordRecord(2, PyInt(5), Absent),
                        KeywordRecord(3, PyStr(<<"2", "0">>), PyStr(<<"5">>))>>]}
Replies ==
    {HttpReply(200, "json", j) : j \in UpstreamJson}
    \cup {HttpReply(s, x, << >>) : s \in {204, 403, 500}, x \in {"", "denied"}}
    \cup {NetworkError}

----------------------------------------------------------------------------
(* format_keywords on drawn inputs *)

FmtIdle ==
    /\ fmt_data = << >>
    /\ fmt_keyword = SampleKeyword
    /\ fmt_top_n = PyInt(DEFAULT_TOP_N)
    /\ fmt_return = NotCalled

NoRequest == [route |-> "none"]
NoResponse == [t |-> "no_response"]

ReqIdle ==
    /\ request = NoRequest
    /\ upstream = NoReply
    /\ outbound = <<>>
    /\ raw_data = NotCalled
    /\ formatted = NotCalled
    /\ response = NoResponse

SseIdle ==
    /\ sse_pc = "closed"
    /\ sse_events = <<>>
    /\ sse_clock = 0
    /\ sse_wake_at = 0
    /\ connected = FALSE
    /\ seen_disconnect = FALSE

InitFormat ==
    /\ fmt_data \in FormatInputs
    /\ fmt_keyword = SampleKeyword
    /\ fmt_top_n \in TopNs
    /\ fmt_return = NotCalled
    /\ now_ms = 0
    /\ ReqIdle
    /\ asyncio_bound = TRUE
    /\ SseIdle

FormatCall ==
    /\ fmt_return = NotCalled
    /\ fmt_return' = format_keywords(fmt_data, fmt_keyword, fmt_top_n)
    /\ UNCHANGED <<fmt_data, fmt_keyword, fmt_top_n, req_vars, sse_vars>>

NextFormat == FormatCall

SpecFormat == InitFormat /\ [][NextFormat]_vars

----------------------------------------------------------------------------
(* The request handlers, one inbound request at a time *)

Init ==
    /\ FmtIdle
    /\ now_ms = 0
    /\ ReqIdle
    /\ asyncio_bound = TRUE
    /\ SseIdle

\* the handler runs to its return (or raises) on request req, the external
\* API answering `reply` to the GET if one is sent
Handle(req, h, reply) ==
    /\ request' = req
    /\ upstream' = IF h.sent = <<>> THEN NoReply ELSE reply
    /\ outbound' = h.sent
    /\ raw_data' = h.raw_data
    /\ formatted' = h.formatted
    /\ response' = h.response
    /\ UNCHANGED <<now_ms, fmt_vars, sse_vars>>

PostMcp ==
    /\ request = NoRequest
    /\ \E body \in Bodies, reply \in Replies :
        Handle([route |-> "POST /mcp", body |-> body],
               mcp_post(body, now_ms, reply), reply)

GetApiKeywords ==
    /\ request = NoRequest
    /\ \E top_n \in {PyInt(n) : n \in {-1, 0, 1, 2, DEFAULT_TOP_N}}, reply \in Replies :
        Handle([route |-> "GET /api/keywords/{keyword}",
                keyword |-> SampleKeyword, top_n |-> top_n],
               api_keywords(SampleKeyword, top_n, now_ms, reply), reply)

GetRoot ==
    /\ request = NoRequest
    /\ Handle([route |-> "GET /"], root, NoReply)

GetHealth ==
    /\ request = NoRequest
    /\ Handle([route |-> "GET /health"], health, NoReply)

\* the response is sent; nothing of the request is kept
Complete ==
    /\ request # NoRequest
    /\ request' = NoRequest
    /\ upstream' = NoReply
    /\ outbound' = <<>>
    /\ raw_data' = NotCalled
    /\ formatted' = NotCalled
    /\ response' = NoResponse
    /\ UNCHANGED <<now_ms, fmt_vars, sse_vars>>

\* time.time() advances (between requests)
Tick ==
    /\ request = NoRequest
    /\ now_ms < MaxClockMs
    /\ now_ms' = now_ms + 1
    /\ UNCHANGED <<request, upstream, outbound, raw_data, formatted, response,
                   fmt_vars, sse_vars>>

Next == PostMcp \/ GetApiKeywords \/ GetRoot \/ GetHealth \/ Complete \/ Tick

Spec == Init /\ [][Next]_vars

----------------------------------------------------------------------------
(* GET /mcp: event_generator *)

INITIALIZED_EVENT == [data |-> [jsonrpc |-> "2.0", method |-> "initialized"]]
KEEPALIVE_COMMENT == [comment |-> "keepalive"]
KEEPALIVE_SECONDS == 30
TickSeconds == KEEPALIVE_SECONDS \div 3

InitSse ==
    /\ FmtIdle
    /\ now_ms = 0
    /\ ReqIdle
    \* `import asyncio` stands in the `if __name__ == "__main__":` block only:
    \* the global is bound when main.py is run as a script and unbound when
    \* an ASGI server imports the module
    /\ asyncio_bound \in BOOLEAN
    /\ SseIdle

Emit(event) == sse_events' = Append(sse_events, [event |-> event, at |-> sse_clock])

\* GET /mcp: the StreamingResponse is returned and starts iterating
SseOpen ==
    /\ sse_pc = "closed"
    /\ sse_pc' = "start"
    /\ connected' = TRUE
    /\ UNCHANGED <<asyncio_bound, sse_events, sse_clock, sse_wake_at, seen_disconnect,
                   fmt_vars, req_vars>>

\* yield f"data: {...}\n\n"
SseYieldInitialized ==
    /\ sse_pc = "start"
    /\ Emit(INITIALIZED_EVENT)
    /\ sse_pc' = "check"
    /\ UNCHANGED <<asyncio_bound, sse_clock, sse_wake_at, connected, seen_disconnect,
                   fmt_vars, req_vars>>

\* if await request.is_disconnected(): break
SseCheckDisconnected ==
    /\ sse_pc = "check"
    /\ IF connected
       THEN sse_pc' = "yield_keepalive" /\ UNCHANGED seen_disconnect
       ELSE sse_pc' = "done" /\ seen_disconnect' = TRUE
    /\ UNCHANGED <<asyncio_bound, sse_events, sse_clock, sse_wake_at, connected,
                   fmt_vars, req_vars>>

\* yield ": keepalive\n\n"
SseYieldKeepalive ==
    /\ sse_pc = "yield_keepalive"
    /\ Emit(KEEPALIVE_COMMENT)
    /\ sse_pc' = "sleep"
    /\ UNCHANGED <<asyncio_bound, sse_clock, sse_wake_at, connected, seen_disconnect,
                   fmt_vars, req_vars>>

\* await asyncio.sleep(30): evaluating the name `asyncio` raises NameError
\* when the global is unbound
SseSleep ==
    /\ sse_pc = "sleep"
    /\ IF asyncio_bound
       THEN sse_pc' = "sleeping" /\ sse_wake_at' = sse_clock + KEEPALIVE_SECONDS
       ELSE sse_pc' = "raised" /\ UNCHANGED sse_wake_at
    /\ UNCHANGED <<asyncio_bound, sse_events, sse_clock, connected, seen_disconnect,
                   fmt_vars, req_vars>>

\* the sleep returns
SseWake ==
    /\ sse_pc = "sleeping"
    /\ sse_clock >= sse_wake_at
    /\ sse_pc' = "check"
    /\ UNCHANGED <<asyncio_bound, sse_events, sse_clock, sse_wake_at, connected,
                   seen_disconnect, fmt_vars, req_vars>>

ClientDisconnect ==
    /\ connected
    /\ connected' = FALSE
    /\ UNCHANGED <<asyncio_bound, sse_pc, sse_events, sse_clock, sse_wake_at,
                   seen_disconnect, fmt_vars, req_vars>>

SseTick ==
    /\ sse_clock < MaxTicks * TickSeconds
    /\ sse_clock' = sse_clock + TickSeconds
    /\ UNCHANGED <<asyncio_bound, sse_pc, sse_events, sse_wake_at, connected,
                   seen_disconnect, fmt_vars, req_vars>>

NextSse ==
    \/ SseOpen \/ SseYieldInitialized \/ SseCheckDisconnected \/ SseYieldKeepalive
    \/ SseSleep \/ SseWake \/ ClientDisconnect \/ SseTick

SpecSse == InitSse /\ [][NextSse]_vars

----------------------------------------------------------------------------
(* Properties of the request handlers, checked under Spec *)

\* the request in hand is a POST /mcp whose handler returned a response
PostAnswered == request.route = "POST /mcp" /\ response # Raised

ReqMethod == Get(request.body, "method", "")
ReqParams == Get(request.body, "params", << >>)
ReqToolName == Get(ReqParams, "name", "")
ReqArguments == Get(ReqParams, "arguments", << >>)
ReqKeyword == Get(ReqArguments, "keyword", Absent)
ReqId == Get(request.body, "id", PyNone)

\* the request names no handled method, or tools/call with another tool
MethodUnhandled ==
    \/ ReqMethod \notin {"initialize", "tools/list", "tools/call"}
    \/ ReqMethod = "tools/call" /\ ReqToolName # "get_naver_keywords"

\* C1: the response of POST /mcp is the error {code: -32601, message: "Method
\* not found"} with the request's id exactly when the method is none of
\* initialize, tools/list, tools/call, or is tools/call with a tool name other
\* than get_naver_keywords; every other response carries a result and no error.
C1_MethodNotFoundExactly ==
    PostAnswered =>
        /\ MethodUnhandled <=>
             response = [jsonrpc |-> "2.0", id |-> ReqId,
                         error |-> [code |-> -32601, message |-> "Method not found"]]
        /\ ~MethodUnhandled =>
             "result" \in DOMAIN response /\ "error" \notin DOMAIN response

C1_Witness ==
    /\ PostAnswered
    /\ ReqMethod = "tools/call"
    /\ ReqToolName = "other_tool"
    /\ ReqId = PyInt(1)
    /\ "error" \in DOMAIN response

\* C2: tools/call of get_naver_keywords with arguments.keyword missing or
\* empty returns a JSON-RPC result (no error) whose only content item is the
\* prompt text, whatever the request id and top_n.
C2_EmptyKeywordPrompt ==
    (/\ PostAnswered
     /\ ReqMethod = "tools/call"
     /\ ReqToolName = "get_naver_keywords"
     /\ ReqKeyword \in {Absent, PyStr(<<>>)}) =>
        /\ DOMAIN response = {"jsonrpc", "id", "result"}
        /\ response.result =
             [content |-> <<[type |-> "text", text |-> [text |-> MSG_ENTER_KEYWORD]]>>]
        /\ outbound = <<>>

C2_Witness ==
    /\ PostAnswered
    /\ ReqMethod = "tools/call"
    /\ ReqToolName = "get_naver_keywords"
    /\ ReqKeyword = PyStr(<<>>)
    /\ Get(ReqArguments, "top_n", Absent) = PyInt(-1)
    /\ "result" \in DOMAIN response

\* C7: every response returned by POST /mcp has jsonrpc "2.0", the caller's
\* id (null when the request has none) and exactly one of result and error.
C7_Envelope ==
    PostAnswered =>
        /\ DOMAIN response \in {{"jsonrpc", "id", "result"}, {"jsonrpc", "id", "error"}}
        /\ response.jsonrpc = "2.0"
        /\ response.id = (IF "id" \in DOMAIN request.body THEN request.body.id ELSE PyNone)

\* the formatter-error branch of tools/call, answered to a request with a string id
C7_Witness ==
    /\ PostAnswered
    /\ "id" \in DOMAIN request.body
    /\ request.body.id = PyStr(<<"a">>)
    /\ formatted # NotCalled
    /\ "error" \in DOMAIN formatted
    /\ response.result.content[1].text = [text |-> ERROR_TEXT_PREFIX \o formatted.error]

\* the handler in hand must call the fetcher: the REST shortcut, or a
\* tools/call of get_naver_keywords with a non-empty keyword
FetchDue ==
    \/ request.route = "GET /api/keywords/{keyword}"
    \/ /\ request.route = "POST /mcp"
       /\ ReqMethod = "tools/call"
       /\ ReqToolName = "get_naver_keywords"
       /\ ReqKeyword \notin {Absent, PyStr(<<>>)}

\* C9: handling one inbound request issues at most one outbound GET: exactly
\* one where the fetcher is due, none otherwise, whatever the upstream status;
\* a non-200 status S is returned by the fetcher as {error: "API 오류: S",
\* detail: <raw body>} after that single GET.
C9_SingleAttempt ==
    request # NoRequest =>
        /\ Len(outbound) = (IF FetchDue THEN 1 ELSE 0)
        /\ \A i \in 1..Len(outbound) : outbound[i].method = "GET"
        /\ (upstream.kind = "http" /\ upstream.status_code # 200) =>
             raw_data = [error |-> API_ERROR_PREFIX \o ToString(upstream.status_code),
                         detail |-> upstream.text]

C9_Witness ==
    /\ request.route = "POST /mcp"
    /\ upstream.kind = "http"
    /\ upstream.status_code = 500
    /\ upstream.text = "denied"
    /\ Len(outbound) = 1
    /\ "detail" \in DOMAIN raw_data

\* C10: in every outbound request the X-Signature header is the signature of
\* "<t>.GET./keywordstool" under the secret key for the very t sent in
\* X-Timestamp, and the signed path carries no query string.
C10_SignedRequest ==
    \A i \in 1..Len(outbound) :
        LET headers == outbound[i].headers
        IN /\ headers["X-Timestamp"] = ToString(now_ms)
           /\ headers["X-Signature"] =
                [base64 |->
                   [hmac_sha256 |->
                      [key |-> SECRET_KEY,
                       message |-> headers["X-Timestamp"] \o ".GET./keywordstool"]]]
           /\ outbound[i].url = "https://api.naver.com/keywordstool"
           /\ outbound[i].params = [hintKeywords |-> SampleKeyword, showDetail |-> "1"]

C10_Witness ==
    /\ Len(outbound) = 1
    /\ now_ms = MaxClockMs
    /\ outbound[1].headers["X-Timestamp"] = ToString(MaxClockMs)

----------------------------------------------------------------------------
(* Properties of format_keywords, checked under SpecFormat *)

\* format_keywords returned a ranked result for the drawn keywordList
Ranked == "topKeywords" \in DOMAIN fmt_return

InputList == fmt_data.keywordList
Top == fmt_return.topKeywords

\* the normalized value of a count as the specification gives it: the
\* sentinel "< 10" is 0, a string of decimal digits (or a non-negative
\* number) is its value, anything else, a missing count included, is 0
NormalizedCount(c) ==
    IF c = Absent THEN 0
    ELSE IF c.t = "int" THEN (IF c.n >= 0 THEN c.n ELSE 0)
    ELSE IF c.t # "str" THEN 0
    ELSE IF c.s = <<"<", " ", "1", "0">> THEN 0
    ELSE IF c.s # <<>> /\ \A i \in 1..Len(c.s) : c.s[i] \in DigitSet THEN StrToNat(c.s)
    ELSE 0

NormalizedSum(rec) ==
    NormalizedCount(Get(rec, "monthlyPcQcCnt", Absent))
    + NormalizedCount(Get(rec, "monthlyMobileQcCnt", Absent))

\* the positions of the input list whose record has the entry's keyword
PositionsOf(entry) == {i \in 1..Len(InputList) : InputList[i].relKeyword = entry.keyword}
PositionOf(entry) == CHOOSE i \in PositionsOf(entry) : TRUE

\* the record at position i ranks before the record at position j
RanksBefore(i, j) ==
    \/ NormalizedSum(InputList[i]) > NormalizedSum(InputList[j])
    \/ NormalizedSum(InputList[i]) = NormalizedSum(InputList[j]) /\ i < j

\* C3: topKeywords holds input records in the order of their normalized sum
\* (pc + mobile, "< 10" and garbage counting 0), descending, records of equal
\* sum in their original relative order, and each entry's monthlySearches is
\* that normalized sum.
C3_StableDescending ==
    Ranked =>
        /\ \A a \in 1..Len(Top) :
             /\ Cardinality(PositionsOf(Top[a])) = 1
             /\ Top[a].monthlySearches = NormalizedSum(InputList[PositionOf(Top[a])])
             /\ Top[a].pcSearches =
                  NormalizedCount(Get(InputList[PositionOf(Top[a])], "monthlyPcQcCnt", Absent))
        /\ \A a, b \in 1..Len(Top) :
             a < b => /\ RanksBefore(PositionOf(Top[a]), PositionOf(Top[b]))
                      /\ Top[a].monthlySearches >= Top[b].monthlySearches

\* three records, the last with the largest sum, the first two tied at 0 by
\* the sentinel and by garbage
C3_Witness ==
    /\ Ranked
    /\ Len(InputList) = 3
    /\ Get(InputList[1], "monthlyPcQcCnt", Absent) = PyStr(SENTINEL_LT_10)
    /\ Get(InputList[2], "monthlyPcQcCnt", Absent) = PyStr(<<"a", "b">>)
    /\ Get(InputList[3], "monthlyPcQcCnt", Absent) = PyStr(<<"2", "0">>)
    /\ Get(InputList[1], "monthlyMobileQcCnt", Absent) = PyStr(<<"-", "3">>)
    /\ "monthlyMobileQcCnt" \notin DOMAIN InputList[2]
    /\ [a \in 1..Len(Top) |-> Top[a].keyword] = <<"kw3", "kw1", "kw2">>
    /\ [a \in 1..Len(Top) |-> Top[a].monthlySearches] = <<20, 0, 0>>

\* C4: for every top_n <= 0, topKeywords is empty and totalResults is the
\* length of the full keywordList.
C4_NonPositiveTopNEmpty ==
    (Ranked /\ fmt_top_n.n <= 0) =>
        /\ Top = <<>>
        /\ fmt_return.totalResults = Len(InputList)

\* C5: for every top_n >= 1 and every keywordList of n records, topKeywords
\* has min(top_n, n) entries, they are the first min(top_n, n) records of the
\* sorted list (every record kept ranks before every record dropped), and
\* totalResults is n.
C5_TruncateAfterSort ==
    (Ranked /\ fmt_top_n.n >= 1) =>
        LET kept == {PositionOf(Top[a]) : a \in 1..Len(Top)}
        IN /\ Len(Top) = Min(fmt_top_n.n, Len(InputList))
           /\ Cardinality(kept) = Len(Top)
           /\ \A i \in kept : \A j \in (1..Len(InputList)) \ kept : RanksBefore(i, j)
           /\ \A a, b \in 1..Len(Top) :
                a < b => RanksBefore(PositionOf(Top[a]), PositionOf(Top[b]))
           /\ fmt_return.totalResults = Len(InputList)

\* top_n = 2 of three records whose last has the largest sum
C5_Witness ==
    /\ Ranked
    /\ fmt_top_n = PyInt(2)
    /\ Len(InputList) = 3
    /\ fmt_return.totalResults = 3
    /\ [a \in 1..Len(Top) |-> Top[a].keyword] = <<"kw3", "kw1">>

\* C6: an input with an error field is returned unchanged; an input with
\* neither error nor keywordList returns exactly {error: "키워드 데이터 없음"};
\* every other input returns a result without an error field.
C6_ErrorOutcomes ==
    fmt_return # NotCalled =>
        /\ "error" \in DOMAIN fmt_data => fmt_return = fmt_data
        /\ ("error" \notin DOMAIN fmt_data /\ "keywordList" \notin DOMAIN fmt_data) =>
             fmt_return = [error |-> MSG_NO_KEYWORD_DATA]
        /\ ("error" \notin DOMAIN fmt_data /\ "keywordList" \in DOMAIN fmt_data) =>
             "error" \notin DOMAIN fmt_return

\* an error input that also carries a keywordList comes back as it went in
C6_Witness ==
    /\ fmt_return # NotCalled
    /\ DOMAIN fmt_data = {"error", "keywordList"}
    /\ fmt_return = fmt_data

----------------------------------------------------------------------------
(* Properties of the event stream, checked under SpecSse *)

\* C8: the first event of the GET /mcp stream is the initialized notification,
\* emitted once; every later emission is a keep-alive comment, consecutive
\* keep-alives 30 seconds apart; the stream goes on while the client stays
\* connected, and ends, emitting nothing further, only once the transport has
\* reported the disconnection.
C8_EventStream ==
    /\ sse_events # <<>> => sse_events[1].event = INITIALIZED_EVENT
    /\ \A i \in 2..Len(sse_events) : sse_events[i].event = KEEPALIVE_COMMENT
    /\ \A i \in 3..Len(sse_events) : sse_events[i].at - sse_events[i - 1].at >= 30
    /\ sse_pc \in {"done", "raised"} => seen_disconnect
    /\ seen_disconnect => sse_pc = "done"

============================================================================
